---- MODULE Spec2Model ----
(***************************************************************************)
(* A model of the pingora-docker reverse proxy's certificate provisioning: *)
(* the certificate validator and the ACME orchestrator of src/acme.rs, the *)
(* startup sequence of src/main.rs, and the standalone provisioning tool   *)
(* of src/provision.rs.  Both programs work on the same certificate        *)
(* directory (cert.pem, key.pem, account.json) and the same DuckDNS TXT    *)
(* records; a behaviour is a sequence of process runs of either program.   *)
(***************************************************************************)
EXTENDS Integers, Sequences, FiniteSets, TLC

(* ------------------------------ bounds -------------------------------- *)

\* Number of process runs (proxy starts or tool invocations) in a behaviour.
MaxRuns == 2

\* Longest configured domain list.
MaxDomains == 2

(* ------------------------------ domains ------------------------------- *)

\* Domain names are sequences of labels: <<"a","duckdns","org">> is
\* "a.duckdns.org".
DomainNames ==
  { <<"a", "duckdns", "org">>, <<"b", "duckdns", "org">>, <<"c", "example", "com">> }

\* domain.strip_suffix(".duckdns.org").unwrap_or(domain): the suffix starts
\* with a dot, so it is stripped only from a name that ends in the two labels
\* duckdns, org and has something (possibly an empty label) before them.
Subdomain(domain) ==
  LET n == Len(domain) IN
  IF n >= 3 /\ domain[n - 1] = "duckdns" /\ domain[n] = "org"
    THEN SubSeq(domain, 1, n - 2)
    ELSE domain

Range(s) == { s[k] : k \in 1..Len(s) }

\* The domain lists a configuration can hold: config.domains is a map, so its
\* keys are distinct; their iteration order is arbitrary.
RECURSIVE SeqsUpTo(_)
SeqsUpTo(n) ==
  IF n = 0 THEN { <<>> }
  ELSE LET shorter == SeqsUpTo(n - 1) IN
       shorter \cup { Append(s, d) : s \in { t \in shorter : Len(t) = n - 1 },
                                     d \in DomainNames }

Batches == { s \in SeqsUpTo(MaxDomains) : Cardinality(Range(s)) = Len(s) }

(* ------------------------ files and certificates ---------------------- *)

\* An issuance is named by the run and the position in the batch of the order
\* that produced it; <<0, 0>> names no issuance.
NoId == <<0, 0>>

\* The content of a file at a certificate path.  kind is one of
\*   "missing"    no such file
\*   "unreadable" the file cannot be read
\*   "notutf8"    the bytes are not UTF-8
\*   "nopem"      no certificate block in the text
\*   "badder"     the first block is not a parsable X.509 certificate
\*   "cert"       the first block parses; hasSan says whether it carries a
\*                Subject Alternative Name extension, names are the general
\*                names of that extension in order.
NoFile == [kind |-> "missing", hasSan |-> FALSE, names |-> <<>>, id |-> NoId]

DnsName(d) == [type |-> "dns", val |-> d]

RECURSIVE NamesOf(_)
NamesOf(ds) ==
  IF ds = <<>> THEN <<>> ELSE <<DnsName(Head(ds))>> \o NamesOf(Tail(ds))

\* The certificate chain the ACME server issues for an order: its first
\* certificate carries one DNS SAN per identifier of the order.
IssuedCert(identifiers, id) ==
  [kind |-> "cert", hasSan |-> TRUE, names |-> NamesOf(identifiers), id |-> id]

(* ------------------------- certificate validator ---------------------- *)

RECURSIVE DnsNamesOf(_)
DnsNamesOf(names) ==
  IF names = <<>> THEN <<>>
  ELSE IF Head(names).type = "dns"
         THEN <<Head(names).val>> \o DnsNamesOf(Tail(names))
         ELSE DnsNamesOf(Tail(names))

\* extract_sans_from_pem: None (here <<FALSE, <<>>>>) when there is no
\* certificate block or the first one does not parse; otherwise Some(sans),
\* the DNS names of every SAN extension found, empty when there is none.
ExtractSansFromPem(file) ==
  IF file.kind = "nopem" THEN <<FALSE, <<>>>>
  ELSE IF file.kind = "badder" THEN <<FALSE, <<>>>>
  ELSE <<TRUE, IF file.hasSan THEN DnsNamesOf(file.names) ELSE <<>>>>

\* A validator that accepts any certificate whose SANs include the required
\* domains.
SetsCovered(required_set, cert_set) == required_set \subseteq cert_set

\* required_set == cert_set, on HashSet<&str>
CoverageTest(required_set, cert_set) == required_set = cert_set

CertCoversDomains(file, required_domains) ==
  IF file.kind \in {"missing", "unreadable"} THEN FALSE
  ELSE IF file.kind = "notutf8" THEN FALSE
  ELSE LET sans == ExtractSansFromPem(file) IN
       IF ~sans[1] THEN FALSE
       ELSE CoverageTest(Range(required_domains), Range(sans[2]))

(* ------------------------------- state -------------------------------- *)

VARIABLES
  run,              \* number of process runs started so far
  prog,             \* the running program: "none", "proxy", "tool" or "covers"
  pc,               \* its position
  domains,          \* the configured domain list
  i,                \* index of the domain being processed (1-based)
  first_cert_saved, \* acme.rs: the default pair was written in this run
  result,           \* what the provisioning call returned
  covered,          \* what cert_covers_domains returned in this run
  acctFile,         \* account.json: 0 when absent, else the run that wrote it
  certFile,         \* the file at cert_path
  keyFile,          \* the file at key_path: the issuance of the key, or NoId
  domCert,          \* <subdomain>_cert.pem, by subdomain
  domKey,           \* <subdomain>_key.pem, by subdomain
  outcome,          \* per domain of this run: none, active, saved, skipped,
                    \* failed, txt_refused
  outstanding,      \* subdomains whose TXT value this run set and has not
                    \* since asked DuckDNS to clear
  clearCalls,       \* indices for which a TXT clear call was issued in this run
  orders,           \* identifier lists of the orders requested in this run
  createCalls,      \* create-account calls issued in this run
  acmeTouched,      \* an account load, ACME call or DNS update happened in this run
  steps,            \* the steps completed for the domain (proxy) or the order
                    \* (tool) in hand, as <<step, domain index>>, in order
  routerCfg,        \* proxy.rs: DomainRouter::config (domains, default_backend)
  session,          \* proxy.rs: the inbound request of the session in hand
  host,             \* proxy.rs: upstream_peer's `host`, as an Option
  peer,             \* proxy.rs: what upstream_peer returned
  upstream_request  \* proxy.rs: the headers of the request sent upstream

vars ==
  << run, prog, pc, domains, i, first_cert_saved, result, covered, acctFile,
     certFile, keyFile, domCert, domKey, outcome, outstanding, clearCalls,
     orders, createCalls, acmeTouched, steps, routerCfg, session, host, peer,
     upstream_request >>

disk == << acctFile, certFile, keyFile, domCert, domKey >>

rtr == << routerCfg, session, host, peer, upstream_request >>

\* Option<T>: None is the empty sequence, Some(v) the one-element sequence.
None == <<>>

Some(v) == << v >>

\* The router's variables while no router is running.
NoSession == [host_header |-> None, authority |-> None, uri_host |-> None,
              client_addr |-> None]

NoPeer == [status |-> "none", addr |-> <<>>, tls |-> FALSE, sni |-> <<>>]

NoUpstream == [Host |-> None, XForwardedFor |-> None, XForwardedProto |-> None]

RouterOff ==
  /\ routerCfg = [domains |-> <<>>, default_backend |-> None]
  /\ session = NoSession
  /\ host = None
  /\ peer = NoPeer
  /\ upstream_request = NoUpstream

Subdomains == { Subdomain(d) : d \in DomainNames }

NoneYet(ds) == [k \in 1..Len(ds) |-> "none"]

Init ==
  /\ run = 0
  /\ prog = "none"
  /\ pc = "idle"
  /\ domains \in Batches
  /\ i = 1
  /\ first_cert_saved = FALSE
  /\ result = "none"
  /\ covered = "unchecked"
  /\ acctFile = 0
  /\ certFile = NoFile
  /\ keyFile = NoId
  /\ domCert = [s \in Subdomains |-> NoFile]
  /\ domKey = [s \in Subdomains |-> NoId]
  /\ outcome = NoneYet(domains)
  /\ outstanding = {}
  /\ clearCalls = {}
  /\ orders = <<>>
  /\ createCalls = 0
  /\ acmeTouched = FALSE
  /\ steps = <<>>
  /\ RouterOff

\* A fresh process: nothing of the previous run survives but the disk and DNS.
FreshRun(program, start) ==
  /\ pc = "idle"
  /\ run < MaxRuns
  /\ run' = run + 1
  /\ prog' = program
  /\ pc' = start
  /\ i' = 1
  /\ first_cert_saved' = FALSE
  /\ result' = "none"
  /\ covered' = "unchecked"
  /\ outcome' = NoneYet(domains)
  /\ outstanding' = {}
  /\ clearCalls' = {}
  /\ orders' = <<>>
  /\ createCalls' = 0
  /\ acmeTouched' = FALSE
  /\ steps' = <<>>
  /\ UNCHANGED << domains, disk, rtr >>

(* --------------------- src/main.rs: proxy startup --------------------- *)

StartProxy == FreshRun("proxy", "main")

\* A startup that provisions on every start, whatever the validator says.
AlwaysProvision(covers) == TRUE

\* if !cert_covers_domains(&cert_path, &domains) { ... provision ... }
NeedsProvisioning(covers) == ~covers

\* The provisioning block of main: entered only with a tls section that has a
\* duckdns_token; both are read from the configuration here and nowhere else.
MainCheckCert ==
  /\ prog = "proxy" /\ pc = "main"
  /\ \E auto \in BOOLEAN :
       IF auto
         THEN LET covers == CertCoversDomains(certFile, domains) IN
              /\ covered' = IF covers THEN "yes" ELSE "no"
              /\ pc' = IF NeedsProvisioning(covers) THEN "account" ELSE "server"
         ELSE /\ covered' = covered
              /\ pc' = "server"
  /\ UNCHANGED << run, prog, domains, i, first_cert_saved, result, disk,
                  outcome, clearCalls, orders, createCalls, acmeTouched,
                  outstanding, steps, rtr >>

(* ---------------- src/acme.rs: provision_certificates ----------------- *)

\* A step of the domain in hand has been done.
Did(step) == steps' = Append(steps, << step, i >>)

\* A startup where an error of provision_certificates ends the process.
ReturnErrAborts ==
  /\ result' = "ErrOther"
  /\ pc' = "fatal"
  /\ steps' = <<>>

\* An error leaving provision_certificates through `?` before the loop: main
\* logs it and goes on to start the server.
ReturnErr ==
  /\ result' = "ErrOther"
  /\ pc' = "server"
  /\ steps' = <<>>

\* The same from inside the loop: the attempt of domain i ends with it.
\* how records what failed: "failed", "txt_refused" for a TXT set call
\* answered with a body that does not start with "OK", or "poll_err" for an
\* Err of poll_ready.
ReturnErrFrom(how) ==
  /\ ReturnErr
  /\ outcome' = [outcome EXCEPT ![i] = how]

ReturnErrInLoop == ReturnErrFrom("failed")

\* The head of `for (i, domain) in config.domains.iter().enumerate()`.
EnterDomain(k) ==
  /\ i' = k
  /\ pc' = IF k > Len(domains) THEN "finish" ELSE "new_order"
  /\ steps' = <<>>

\* Some(path) if path.exists(): read, parse and reconstitute the account.
LoadAccount ==
  /\ prog = "proxy" /\ pc = "account"
  /\ acctFile # 0
  /\ acmeTouched' = TRUE
  /\ \E ok \in BOOLEAN :
       IF ok THEN EnterDomain(1) /\ result' = result
             ELSE ReturnErr /\ i' = i
  /\ UNCHANGED << run, prog, domains, first_cert_saved, covered, disk,
                  outcome, clearCalls, orders, createCalls, outstanding, rtr >>

\* Otherwise: Account::builder()?.create(...).await?
CreateAccount ==
  /\ prog = "proxy" /\ pc = "account"
  /\ acctFile = 0
  /\ acmeTouched' = TRUE
  /\ createCalls' = createCalls + 1
  /\ \E ok \in BOOLEAN :
       IF ok THEN pc' = "save_account" /\ UNCHANGED << result, steps >>
             ELSE ReturnErr
  /\ UNCHANGED << run, prog, domains, i, first_cert_saved, covered, disk,
                  outcome, clearCalls, orders, outstanding, rtr >>

\* create_dir_all(parent)?; std::fs::write(path, credentials)?
SaveAccount ==
  /\ prog = "proxy" /\ pc = "save_account"
  /\ \E ok \in BOOLEAN :
       IF ok THEN /\ acctFile' = run
                  /\ EnterDomain(1)
                  /\ result' = result
             ELSE /\ acctFile' = acctFile
                  /\ ReturnErr
                  /\ i' = i
  /\ UNCHANGED << run, prog, domains, first_cert_saved, covered, certFile,
                  keyFile, domCert, domKey, outcome, clearCalls, orders,
                  createCalls, acmeTouched, outstanding, rtr >>

\* let identifier = Identifier::Dns(domain.clone()); NewOrder::new(&[identifier])
OrderIdentifiers(ds, k) == << ds[k] >>

NewOrder ==
  /\ prog = "proxy" /\ pc = "new_order"
  /\ orders' = Append(orders, OrderIdentifiers(domains, i))
  /\ acmeTouched' = TRUE
  /\ \E ok \in BOOLEAN :
       IF ok THEN /\ outcome' = [outcome EXCEPT ![i] = "active"]
                  /\ pc' = "authz"
                  /\ UNCHANGED << result, steps >>
             ELSE ReturnErrInLoop
  /\ UNCHANGED << run, prog, domains, i, first_cert_saved, covered, disk,
                  clearCalls, createCalls, outstanding, rtr >>

\* The step of receiving an authorization with the given status.
Authz(status) == IF status = "pending" THEN "authz_pending"
                 ELSE IF status = "valid" THEN "authz_valid"
                 ELSE "authz_invalid"

\* A loop that handles the challenge of every authorization it receives.
AlwaysChallenge(status) == TRUE

\* if authz.status == AuthorizationStatus::Pending { ... }
NeedsChallenge(status) == status = "pending"

\* authorizations.next().await: no authorization, an error, or one with a
\* status; only a Pending one has its challenge handled.
FetchAuthorization ==
  /\ prog = "proxy" /\ pc = "authz"
  /\ \E r \in {"none", "err", "pending", "valid", "invalid"} :
       IF r = "err" THEN ReturnErrInLoop
       ELSE /\ pc' = IF NeedsChallenge(r) THEN "challenge" ELSE "poll_ready"
            /\ IF r = "none" THEN steps' = steps ELSE Did(Authz(r))
            /\ UNCHANGED << result, outcome >>
  /\ UNCHANGED << run, prog, domains, i, first_cert_saved, covered, disk,
                  clearCalls, orders, createCalls, acmeTouched, outstanding,
                  rtr >>

\* authz.challenge(ChallengeType::Dns01).ok_or_else(...)?
SelectChallenge ==
  /\ prog = "proxy" /\ pc = "challenge"
  /\ \E found \in BOOLEAN :
       IF found THEN pc' = "set_txt" /\ UNCHANGED << result, outcome, steps >>
                ELSE ReturnErrInLoop
  /\ UNCHANGED << run, prog, domains, i, first_cert_saved, covered, disk,
                  clearCalls, orders, createCalls, acmeTouched, outstanding,
                  rtr >>

\* set_duckdns_txt: Ok iff the response body starts with "OK"; any other body
\* and any transport error is an Err.
SetDuckdnsTxt ==
  /\ prog = "proxy" /\ pc = "set_txt"
  /\ \E r \in {"OK", "KO", "neterr"} :
       IF r = "OK"
         THEN /\ outstanding' = outstanding \cup {Subdomain(domains[i])}
              /\ pc' = "wait"
              /\ Did("set_txt") /\ UNCHANGED << result, outcome >>
         ELSE /\ ReturnErrFrom(IF r = "KO" THEN "txt_refused" ELSE "failed")
              /\ outstanding' = outstanding
  /\ UNCHANGED << run, prog, domains, i, first_cert_saved, covered, disk,
                  clearCalls, orders, createCalls, acmeTouched, rtr >>

WaitForDnsPropagation ==
  /\ prog = "proxy" /\ pc = "wait"
  /\ pc' = "set_ready"
  /\ Did("wait")
  /\ UNCHANGED << run, prog, domains, i, first_cert_saved, result, covered,
                  disk, outcome, clearCalls, orders, createCalls, acmeTouched,
                  outstanding, rtr >>

\* challenge.set_ready().await?
SetReady ==
  /\ prog = "proxy" /\ pc = "set_ready"
  /\ \E ok \in BOOLEAN :
       IF ok THEN pc' = "poll_ready" /\ Did("set_ready") /\ UNCHANGED << result, outcome >>
             ELSE ReturnErrInLoop
  /\ UNCHANGED << run, prog, domains, i, first_cert_saved, covered, disk,
                  clearCalls, orders, createCalls, acmeTouched, outstanding,
                  rtr >>

\* A poll without a timeout ceiling: while the order stays pending it goes on
\* polling and never returns to the loop.
PollReadyUnbounded ==
  /\ prog = "proxy" /\ pc = "poll_ready"
  /\ \E r \in {"ready", "invalid", "pending"} :
       /\ pc' = IF r = "ready" THEN "finalize"
                ELSE IF r = "invalid" THEN "clear_skipped"
                ELSE "polling"
       /\ IF r = "ready" THEN Did("poll_ready") ELSE steps' = steps
  /\ UNCHANGED << run, prog, domains, i, first_cert_saved, result, covered,
                  disk, outcome, clearCalls, orders, createCalls, acmeTouched,
                  outstanding, rtr >>

\* order.poll_ready(&retry_policy).await?: a status, or an Err (a transport
\* or API error, or the policy's timeout running out).
PollReady ==
  /\ prog = "proxy" /\ pc = "poll_ready"
  /\ \E r \in {"ready", "invalid", "err"} :
       IF r = "err" THEN ReturnErrFrom("poll_err")
       ELSE /\ pc' = IF r = "ready" THEN "finalize" ELSE "clear_skipped"
            /\ IF r = "ready" THEN Did("poll_ready") ELSE steps' = steps
            /\ UNCHANGED << result, outcome >>
  /\ UNCHANGED << run, prog, domains, i, first_cert_saved, covered, disk,
                  clearCalls, orders, createCalls, acmeTouched, outstanding,
                  rtr >>

\* clear_duckdns_txt(...).await? followed by the next iteration: a body that
\* does not start with "OK" is logged and is Ok(()), a transport error is an Err.
ClearThenNext(terminal) ==
  /\ clearCalls' = clearCalls \cup {i}
  /\ outstanding' = outstanding \ {Subdomain(domains[i])}
  /\ \E r \in {"OK", "KO", "neterr"} :
       IF r = "neterr"
         THEN ReturnErrInLoop /\ i' = i
         ELSE /\ outcome' = [outcome EXCEPT ![i] = terminal]
              /\ EnterDomain(i + 1)
              /\ result' = result

\* if status != OrderStatus::Ready { clear_duckdns_txt(..).await?; continue; }
ClearSkipped ==
  /\ prog = "proxy" /\ pc = "clear_skipped"
  /\ ClearThenNext("skipped")
  /\ UNCHANGED << run, prog, domains, first_cert_saved, covered, disk, orders,
                  createCalls, acmeTouched, rtr >>

\* order.finalize().await?
Finalize ==
  /\ prog = "proxy" /\ pc = "finalize"
  /\ \E ok \in BOOLEAN :
       IF ok THEN pc' = "poll_certificate" /\ Did("finalize") /\ UNCHANGED << result, outcome >>
             ELSE ReturnErrInLoop
  /\ UNCHANGED << run, prog, domains, i, first_cert_saved, covered, disk,
                  clearCalls, orders, createCalls, acmeTouched, outstanding,
                  rtr >>

\* order.poll_certificate(&retry_policy).await?
PollCertificate ==
  /\ prog = "proxy" /\ pc = "poll_certificate"
  /\ \E ok \in BOOLEAN :
       IF ok THEN pc' = "create_dir" /\ UNCHANGED << result, outcome, steps >>
             ELSE ReturnErrInLoop
  /\ UNCHANGED << run, prog, domains, i, first_cert_saved, covered, disk,
                  clearCalls, orders, createCalls, acmeTouched, outstanding,
                  rtr >>

\* std::fs::create_dir_all(cert_dir)?
CreateCertDir ==
  /\ prog = "proxy" /\ pc = "create_dir"
  /\ \E ok \in BOOLEAN :
       IF ok THEN pc' = "write_domain_cert" /\ UNCHANGED << result, outcome, steps >>
             ELSE ReturnErrInLoop
  /\ UNCHANGED << run, prog, domains, i, first_cert_saved, covered, disk,
                  clearCalls, orders, createCalls, acmeTouched, outstanding,
                  rtr >>

\* std::fs::write(&domain_cert_path, &cert_pem)?
WriteDomainCert ==
  /\ prog = "proxy" /\ pc = "write_domain_cert"
  /\ \E ok \in BOOLEAN :
       IF ok
         THEN /\ domCert' = [domCert EXCEPT ![Subdomain(domains[i])] =
                               IssuedCert(OrderIdentifiers(domains, i), <<run, i>>)]
              /\ pc' = "write_domain_key"
              /\ UNCHANGED << result, outcome, steps >>
         ELSE /\ domCert' = domCert
              /\ ReturnErrInLoop
  /\ UNCHANGED << run, prog, domains, i, first_cert_saved, covered, acctFile,
                  certFile, keyFile, domKey, clearCalls, orders, createCalls,
                  acmeTouched, outstanding, rtr >>

\* std::fs::write(&domain_key_path, &key_pem)?; then `if !first_cert_saved`
WriteDomainKey ==
  /\ prog = "proxy" /\ pc = "write_domain_key"
  /\ \E ok \in BOOLEAN :
       IF ok
         THEN /\ domKey' = [domKey EXCEPT ![Subdomain(domains[i])] = <<run, i>>]
              /\ pc' = IF first_cert_saved THEN "clear_saved" ELSE "write_cert"
              /\ UNCHANGED << result, outcome, steps >>
         ELSE /\ domKey' = domKey
              /\ ReturnErrInLoop
  /\ UNCHANGED << run, prog, domains, i, first_cert_saved, covered, acctFile,
                  certFile, keyFile, domCert, clearCalls, orders, createCalls,
                  acmeTouched, outstanding, rtr >>

\* std::fs::write(&config.cert_path, &cert_pem)?
WriteDefaultCert ==
  /\ prog = "proxy" /\ pc = "write_cert"
  /\ \E ok \in BOOLEAN :
       IF ok
         THEN /\ certFile' = IssuedCert(OrderIdentifiers(domains, i), <<run, i>>)
              /\ pc' = "write_key"
              /\ UNCHANGED << result, outcome, steps >>
         ELSE /\ certFile' = certFile
              /\ ReturnErrInLoop
  /\ UNCHANGED << run, prog, domains, i, first_cert_saved, covered, acctFile,
                  keyFile, domCert, domKey, clearCalls, orders, createCalls,
                  acmeTouched, outstanding, rtr >>

\* std::fs::write(&config.key_path, &key_pem)?; first_cert_saved = true
WriteDefaultKey ==
  /\ prog = "proxy" /\ pc = "write_key"
  /\ \E ok \in BOOLEAN :
       IF ok
         THEN /\ keyFile' = <<run, i>>
              /\ first_cert_saved' = TRUE
              /\ pc' = "clear_saved"
              /\ UNCHANGED << result, outcome, steps >>
         ELSE /\ UNCHANGED << keyFile, first_cert_saved >>
              /\ ReturnErrInLoop
  /\ UNCHANGED << run, prog, domains, i, covered, acctFile, certFile, domCert,
                  domKey, clearCalls, orders, createCalls, acmeTouched,
                  outstanding, rtr >>

\* clear_duckdns_txt(domain, &config.duckdns_token).await? at the end of the
\* loop body.
ClearSaved ==
  /\ prog = "proxy" /\ pc = "clear_saved"
  /\ ClearThenNext("saved")
  /\ UNCHANGED << run, prog, domains, first_cert_saved, covered, disk, orders,
                  createCalls, acmeTouched, rtr >>

\* if !first_cert_saved { return Err("Failed to provision any certificates") }
\* Ok(())
Finish ==
  /\ prog = "proxy" /\ pc = "finish"
  /\ result' = IF first_cert_saved THEN "Ok" ELSE "ErrNoCerts"
  /\ pc' = "server"
  /\ UNCHANGED << run, prog, domains, i, first_cert_saved, covered, disk,
                  outcome, clearCalls, orders, createCalls, acmeTouched,
                  outstanding, steps, rtr >>

(* ------------------- src/main.rs: starting the server ----------------- *)

\* A startup that arms the listeners without waiting for the provisioning
\* block to return.
StartServerEarly ==
  /\ prog = "proxy" /\ pc \in {"server", "account", "new_order"}
  /\ pc' = "tls_listener"
  /\ UNCHANGED << run, prog, domains, i, first_cert_saved, result, covered,
                  disk, outcome, clearCalls, orders, createCalls, acmeTouched,
                  outstanding, steps, rtr >>

\* Server::new, bootstrap, the router and the HTTP listener.
StartServer ==
  /\ prog = "proxy" /\ pc = "server"
  /\ pc' = "tls_listener"
  /\ UNCHANGED << run, prog, domains, i, first_cert_saved, result, covered,
                  disk, outcome, clearCalls, orders, createCalls, acmeTouched,
                  outstanding, steps, rtr >>

\* With tls_listen_addr and tls configured, TlsSettings::intermediate loads the
\* default pair and its failure is fatal (expect); then run_forever.
AddTlsListener ==
  /\ prog = "proxy" /\ pc = "tls_listener"
  /\ \E tls \in BOOLEAN :
       pc' = IF tls /\ (certFile.kind # "cert" \/ keyFile = NoId)
               THEN "fatal" ELSE "serving"
  /\ UNCHANGED << run, prog, domains, i, first_cert_saved, result, covered,
                  disk, outcome, clearCalls, orders, createCalls, acmeTouched,
                  outstanding, steps, rtr >>

\* The process ends (killed, crashed or exited); the next run starts afresh.
Exit ==
  /\ pc \in {"serving", "fatal", "exited"}
  /\ pc' = "idle"
  /\ prog' = "none"
  /\ UNCHANGED << run, domains, i, first_cert_saved, result, covered, disk,
                  outcome, clearCalls, orders, createCalls, acmeTouched,
                  outstanding, steps, rtr >>

(* ------------- src/provision.rs: the standalone provision tool -------- *)

\* --domains is required: the tool runs with at least one domain.
StartTool ==
  /\ Len(domains) >= 1
  /\ FreshRun("tool", "t_account")

\* An error leaving the tool's main through `?` or `return Err`: every
\* domain of the order fails with it.
ToolErr ==
  /\ result' = "ErrOther"
  /\ pc' = "exited"
  /\ outcome' = [k \in 1..Len(domains) |->
                   IF outcome[k] = "active" THEN "failed" ELSE outcome[k]]
  /\ steps' = <<>>

\* Account::builder()?.create(...).await?: a new account on every run.
ToolCreateAccount ==
  /\ prog = "tool" /\ pc = "t_account"
  /\ acmeTouched' = TRUE
  /\ createCalls' = createCalls + 1
  /\ \E ok \in BOOLEAN :
       IF ok THEN pc' = "t_order" /\ UNCHANGED << result, outcome, steps >>
             ELSE ToolErr
  /\ UNCHANGED << run, prog, domains, i, first_cert_saved, covered, disk,
                  clearCalls, orders, outstanding, rtr >>

\* opts.domains.iter().map(|d| Identifier::Dns(d.clone())).collect()
ToolOrderIdentifiers(ds) == ds

\* The head of `while let Some(result) = authorizations.next().await`: one
\* authorization per identifier of the order.
ToolEnterAuthz(k) ==
  /\ i' = k
  /\ pc' = IF k > Len(domains) THEN "t_poll_ready" ELSE "t_authz"

\* account.new_order(&NewOrder::new(identifiers.as_slice())).await?
ToolNewOrder ==
  /\ prog = "tool" /\ pc = "t_order"
  /\ orders' = Append(orders, ToolOrderIdentifiers(domains))
  /\ \E ok \in BOOLEAN :
       IF ok THEN /\ ToolEnterAuthz(1)
                  /\ outcome' = [k \in 1..Len(domains) |-> "active"]
                  /\ UNCHANGED << result, steps >>
             ELSE ToolErr /\ i' = i
  /\ UNCHANGED << run, prog, domains, first_cert_saved, covered, disk,
                  clearCalls, createCalls, acmeTouched, outstanding, rtr >>

\* match authz.status { Pending => {}, Valid => continue, status => return Err }
ToolFetchAuthorization ==
  /\ prog = "tool" /\ pc = "t_authz"
  /\ \E r \in {"err", "pending", "valid", "invalid"} :
       CASE r = "pending" ->
              /\ pc' = "t_challenge"
              /\ Did(Authz(r))
              /\ UNCHANGED << i, result, outcome >>
         [] r = "valid" ->
              /\ ToolEnterAuthz(i + 1)
              /\ Did(Authz(r))
              /\ UNCHANGED << result, outcome >>
         [] OTHER -> ToolErr /\ i' = i
  /\ UNCHANGED << run, prog, domains, first_cert_saved, covered, disk,
                  clearCalls, orders, createCalls, acmeTouched, outstanding,
                  rtr >>

ToolSelectChallenge ==
  /\ prog = "tool" /\ pc = "t_challenge"
  /\ \E found \in BOOLEAN :
       IF found THEN pc' = "t_set_txt" /\ UNCHANGED << result, outcome, steps >>
                ELSE ToolErr
  /\ UNCHANGED << run, prog, domains, i, first_cert_saved, covered, disk,
                  clearCalls, orders, createCalls, acmeTouched, outstanding,
                  rtr >>

\* set_duckdns_txt(&domain, &opts.duckdns_token, &txt_value).await?
ToolSetDuckdnsTxt ==
  /\ prog = "tool" /\ pc = "t_set_txt"
  /\ \E r \in {"OK", "KO", "neterr"} :
       IF r = "OK"
         THEN /\ outstanding' = outstanding \cup {Subdomain(domains[i])}
              /\ pc' = "t_wait"
              /\ Did("set_txt") /\ UNCHANGED << result, outcome >>
         ELSE /\ ToolErr
              /\ outstanding' = outstanding
  /\ UNCHANGED << run, prog, domains, i, first_cert_saved, covered, disk,
                  clearCalls, orders, createCalls, acmeTouched, rtr >>

ToolWaitForDnsPropagation ==
  /\ prog = "tool" /\ pc = "t_wait"
  /\ pc' = "t_set_ready"
  /\ Did("wait")
  /\ UNCHANGED << run, prog, domains, i, first_cert_saved, result, covered,
                  disk, outcome, clearCalls, orders, createCalls, acmeTouched,
                  outstanding, rtr >>

\* challenge.set_ready().await?, then the next authorization
ToolSetReady ==
  /\ prog = "tool" /\ pc = "t_set_ready"
  /\ \E ok \in BOOLEAN :
       IF ok THEN ToolEnterAuthz(i + 1) /\ Did("set_ready") /\ UNCHANGED << result, outcome >>
             ELSE ToolErr /\ i' = i
  /\ UNCHANGED << run, prog, domains, first_cert_saved, covered, disk,
                  clearCalls, orders, createCalls, acmeTouched, outstanding,
                  rtr >>

\* order.poll_ready(..).await?; if status != Ready { return Err(..) }
ToolPollReady ==
  /\ prog = "tool" /\ pc = "t_poll_ready"
  /\ \E r \in {"ready", "invalid", "err"} :
       IF r = "ready" THEN pc' = "t_finalize" /\ Did("poll_ready") /\ UNCHANGED << result, outcome >>
                      ELSE ToolErr
  /\ UNCHANGED << run, prog, domains, i, first_cert_saved, covered, disk,
                  clearCalls, orders, createCalls, acmeTouched, outstanding,
                  rtr >>

\* order.finalize().await?; order.poll_certificate(..).await?
ToolFinalize ==
  /\ prog = "tool" /\ pc = "t_finalize"
  /\ \E ok \in BOOLEAN :
       IF ok THEN pc' = "t_poll_certificate" /\ Did("finalize") /\ UNCHANGED << result, outcome >>
             ELSE ToolErr
  /\ UNCHANGED << run, prog, domains, i, first_cert_saved, covered, disk,
                  clearCalls, orders, createCalls, acmeTouched, outstanding,
                  rtr >>

ToolPollCertificate ==
  /\ prog = "tool" /\ pc = "t_poll_certificate"
  /\ \E ok \in BOOLEAN :
       IF ok THEN pc' = "t_write_cert" /\ UNCHANGED << result, outcome, steps >>
             ELSE ToolErr
  /\ UNCHANGED << run, prog, domains, i, first_cert_saved, covered, disk,
                  clearCalls, orders, createCalls, acmeTouched, outstanding,
                  rtr >>

\* create_dir_all(&opts.output_dir)?; std::fs::write(&cert_path, ..)?
ToolWriteCert ==
  /\ prog = "tool" /\ pc = "t_write_cert"
  /\ \E ok \in BOOLEAN :
       IF ok
         THEN /\ certFile' = IssuedCert(ToolOrderIdentifiers(domains), <<run, 0>>)
              /\ pc' = "t_write_key"
              /\ UNCHANGED << result, outcome, steps >>
         ELSE /\ certFile' = certFile
              /\ ToolErr
  /\ UNCHANGED << run, prog, domains, i, first_cert_saved, covered, acctFile,
                  keyFile, domCert, domKey, clearCalls, orders, createCalls,
                  acmeTouched, outstanding, rtr >>

\* std::fs::write(&key_path, &private_key_pem)?
ToolWriteKey ==
  /\ prog = "tool" /\ pc = "t_write_key"
  /\ \E ok \in BOOLEAN :
       IF ok
         THEN /\ keyFile' = <<run, 0>>
              /\ outcome' = [k \in 1..Len(domains) |-> "saved"]
              /\ pc' = "t_write_account"
              /\ UNCHANGED << result, steps >>
         ELSE /\ keyFile' = keyFile
              /\ ToolErr
  /\ UNCHANGED << run, prog, domains, i, first_cert_saved, covered, acctFile,
                  certFile, domCert, domKey, clearCalls, orders, createCalls,
                  acmeTouched, outstanding, rtr >>

\* The head of `for domain in &opts.domains` around clear_duckdns_txt.
ToolEnterClear(k) ==
  /\ i' = k
  /\ IF k > Len(domains)
       THEN pc' = "exited" /\ result' = "Ok"
       ELSE pc' = "t_clear" /\ result' = result

\* std::fs::write(&creds_path, serde_json::to_string_pretty(&credentials)?)?
ToolWriteAccount ==
  /\ prog = "tool" /\ pc = "t_write_account"
  /\ \E ok \in BOOLEAN :
       IF ok
         THEN /\ acctFile' = run
              /\ ToolEnterClear(1)
         ELSE /\ acctFile' = acctFile
              /\ result' = "ErrOther"
              /\ pc' = "exited"
              /\ i' = i
  /\ UNCHANGED << run, prog, domains, first_cert_saved, covered, certFile,
                  keyFile, domCert, domKey, outcome, clearCalls, orders,
                  createCalls, acmeTouched, outstanding, steps, rtr >>

\* clear_duckdns_txt(domain, &opts.duckdns_token).await?
ToolClearDuckdnsTxt ==
  /\ prog = "tool" /\ pc = "t_clear"
  /\ clearCalls' = clearCalls \cup {i}
  /\ outstanding' = outstanding \ {Subdomain(domains[i])}
  /\ \E r \in {"OK", "KO", "neterr"} :
       IF r = "neterr"
         THEN result' = "ErrOther" /\ pc' = "exited" /\ i' = i
         ELSE ToolEnterClear(i + 1)
  /\ UNCHANGED << run, prog, domains, first_cert_saved, covered, disk,
                  outcome, orders, createCalls, acmeTouched, steps, rtr >>

(* --------------------------- specification ---------------------------- *)

Next ==
  \/ StartProxy
  \/ MainCheckCert
  \/ LoadAccount
  \/ CreateAccount
  \/ SaveAccount
  \/ NewOrder
  \/ FetchAuthorization
  \/ SelectChallenge
  \/ SetDuckdnsTxt
  \/ WaitForDnsPropagation
  \/ SetReady
  \/ PollReady
  \/ ClearSkipped
  \/ Finalize
  \/ PollCertificate
  \/ CreateCertDir
  \/ WriteDomainCert
  \/ WriteDomainKey
  \/ WriteDefaultCert
  \/ WriteDefaultKey
  \/ ClearSaved
  \/ Finish
  \/ StartServer
  \/ AddTlsListener
  \/ Exit
  \/ StartTool
  \/ ToolCreateAccount
  \/ ToolNewOrder
  \/ ToolFetchAuthorization
  \/ ToolSelectChallenge
  \/ ToolSetDuckdnsTxt
  \/ ToolWaitForDnsPropagation
  \/ ToolSetReady
  \/ ToolPollReady
  \/ ToolFinalize
  \/ ToolPollCertificate
  \/ ToolWriteCert
  \/ ToolWriteKey
  \/ ToolWriteAccount
  \/ ToolClearDuckdnsTxt

Spec == Init /\ [][Next]_vars

\* The steps of a proxy process from the certificate check of main to the
\* listeners. main is sequential code and block_on drives the one future to
\* its end: every await of provision_certificates returns (each poll within
\* its retry policy's timeout) and the next statement runs.
ProvisionStep ==
  \/ MainCheckCert
  \/ LoadAccount
  \/ CreateAccount
  \/ SaveAccount
  \/ NewOrder
  \/ FetchAuthorization
  \/ SelectChallenge
  \/ SetDuckdnsTxt
  \/ WaitForDnsPropagation
  \/ SetReady
  \/ PollReady
  \/ ClearSkipped
  \/ Finalize
  \/ PollCertificate
  \/ CreateCertDir
  \/ WriteDomainCert
  \/ WriteDomainKey
  \/ WriteDefaultCert
  \/ WriteDefaultKey
  \/ ClearSaved
  \/ Finish
  \/ StartServer
  \/ AddTlsListener

SpecFair == Spec /\ WF_vars(ProvisionStep)

(* ------------- the certificate validator on arbitrary input ----------- *)

\* Longest list of general names in a certificate's SAN extension.
MaxSans == 2

GeneralNames ==
  { DnsName(d) : d \in DomainNames } \cup { [type |-> "ip", val |-> <<"10", "0", "0", "1">>] }

RECURSIVE NameSeqsUpTo(_)
NameSeqsUpTo(n) ==
  IF n = 0 THEN { <<>> }
  ELSE LET shorter == NameSeqsUpTo(n - 1) IN
       shorter \cup { Append(s, g) : s \in { t \in shorter : Len(t) = n - 1 },
                                     g \in GeneralNames }

\* What can lie at cert_path: nothing, something unreadable or unparsable, a
\* certificate without SAN extension, or one with any list of general names.
CertInputs ==
  { [NoFile EXCEPT !.kind = k] :
      k \in {"missing", "unreadable", "notutf8", "nopem", "badder", "cert"} }
  \cup { [kind |-> "cert", hasSan |-> TRUE, names |-> ns, id |-> NoId] :
           ns \in NameSeqsUpTo(MaxSans) }

InitCovers ==
  /\ run = 0
  /\ prog = "covers"
  /\ pc = "call"
  /\ domains \in SeqsUpTo(MaxDomains)
  /\ certFile \in CertInputs
  /\ i = 1
  /\ first_cert_saved = FALSE
  /\ result = "none"
  /\ covered = "unchecked"
  /\ acctFile = 0
  /\ keyFile = NoId
  /\ domCert = [s \in Subdomains |-> NoFile]
  /\ domKey = [s \in Subdomains |-> NoId]
  /\ outcome = NoneYet(domains)
  /\ outstanding = {}
  /\ clearCalls = {}
  /\ orders = <<>>
  /\ createCalls = 0
  /\ acmeTouched = FALSE
  /\ steps = <<>>
  /\ RouterOff

\* cert_covers_domains(&cert_path, &domains)
CoversCall ==
  /\ prog = "covers" /\ pc = "call"
  /\ covered' = IF CertCoversDomains(certFile, domains) THEN "yes" ELSE "no"
  /\ pc' = "returned"
  /\ UNCHANGED << run, prog, domains, i, first_cert_saved, result, disk,
                  outcome, outstanding, clearCalls, orders, createCalls,
                  acmeTouched, steps, rtr >>

NextCovers == CoversCall

SpecCovers == InitCovers /\ [][NextCovers]_vars

(* --------------------- the domain router (proxy.rs) ------------------- *)

\* A string is the sequence of its characters. The characters in use: two
\* letters, one of them also in upper case, the dot, the wildcard star, the
\* colon before a port and a digit.
LowerChar(c) == IF c = "A" THEN "a" ELSE c

\* str::to_lowercase
ToLowercase(s) == [k \in 1..Len(s) |-> LowerChar(s[k])]

\* s.split(':').next().unwrap_or(s): what precedes the first colon.
BeforeColon(s) ==
  LET colons == { k \in 1..Len(s) : s[k] = ":" } IN
  IF colons = {} THEN s
  ELSE SubSeq(s, 1, (CHOOSE k \in colons : \A m \in colons : k <= m) - 1)

\* str::starts_with and str::ends_with
StartsWith(s, prefix) ==
  Len(prefix) <= Len(s) /\ SubSeq(s, 1, Len(prefix)) = prefix

EndsWith(s, suffix) ==
  Len(suffix) <= Len(s) /\ SubSeq(s, Len(s) - Len(suffix) + 1, Len(s)) = suffix

\* Most keys in the `domains` map of a configuration.
MaxKeys == 2

\* Keys a configuration may use: exact names in lower and in mixed case, a
\* root name, and wildcards over the root and over a name.
RouterKeys ==
  { <<"a", ".", "w">>, <<"A", ".", "w">>, <<"w">>,
    <<"*", ".", "w">>, <<"*", ".", "a", ".", "w">> }

\* The backend configured under a key: one per key, told apart by its host.
KeyBackend(k) ==
  [host |-> <<"u", ".">> \o k, port |-> 8080, tls |-> FALSE, sni |-> None]

DefaultBackend ==
  [host |-> <<"d">>, port |-> 8443, tls |-> TRUE, sni |-> Some(<<"s">>)]

\* ProxyConfig, as far as the router reads it.
RouterConfigs ==
  { [domains |-> [k \in keys |-> KeyBackend(k)], default_backend |-> d] :
      keys \in { ks \in SUBSET RouterKeys : Cardinality(ks) <= MaxKeys },
      d \in { None, Some(DefaultBackend) } }

\* Host names a request may carry, the empty one included.
HostNames ==
  { <<>>, <<"a", ".", "w">>, <<"A", ".", "w">>, <<"w">>,
    <<"a", ".", "a", ".", "w">> }

\* A header value: readable as text (HeaderValue::to_str is Ok) or not.
HeaderValues ==
  { [text |-> TRUE, val |-> h \o port] :
      h \in HostNames, port \in { <<>>, <<":", "8">> } }
  \cup { [text |-> FALSE, val |-> <<>>] }

Options(S) == { None } \cup { Some(v) : v \in S }

\* The inbound requests: the Host header, the :authority pseudo-header, the
\* host of the request URI (never empty, never with a port) and the address of
\* the client.
Sessions ==
  [host_header : Options(HeaderValues),
   authority   : Options(HeaderValues),
   uri_host    : Options(HostNames \ { <<>> }),
   client_addr : Options({ <<"c">> })]

\* Is the header there with a value that to_str accepts?
IsText(header) == header # None /\ header[1].text

\* DomainRouter::get_host_from_session
GetHostFromSession(s) ==
  IF IsText(s.host_header)
    THEN Some(ToLowercase(BeforeColon(s.host_header[1].val)))
  ELSE IF IsText(s.authority)
    THEN Some(ToLowercase(BeforeColon(s.authority[1].val)))
  ELSE IF s.uri_host # None
    THEN Some(ToLowercase(s.uri_host[1]))
  ELSE None

\* A wildcard test that drops the dot with the star.
WildcardMatchesRoot(domain, h) ==
  StartsWith(domain, <<"*", ".">>) /\ EndsWith(h, SubSeq(domain, 3, Len(domain)))

\* The wildcard test of find_backend: domain.starts_with("*.") and
\* host.ends_with(&domain[1..])
WildcardMatches(domain, h) ==
  StartsWith(domain, <<"*", ".">>) /\ EndsWith(h, SubSeq(domain, 2, Len(domain)))

\* A lookup that tries the wildcards before the exact key.
FindBackendWildcardFirst(config, h) ==
  LET keys == DOMAIN config.domains
      wild == { k \in keys : WildcardMatches(k, h) } IN
  IF wild # {} THEN { Some(config.domains[k]) : k \in wild }
  ELSE IF h \in keys THEN { Some(config.domains[h]) }
  ELSE { config.default_backend }

\* DomainRouter::find_backend: the backends it may return, as Options. The
\* loop runs over a HashMap, so any matching wildcard key may come first.
FindBackend(config, h) ==
  LET keys == DOMAIN config.domains
      wild == { k \in keys : WildcardMatches(k, h) } IN
  IF h \in keys THEN { Some(config.domains[h]) }
  ELSE IF wild # {} THEN { Some(config.domains[k]) : k \in wild }
  ELSE { config.default_backend }

\* The HttpPeer built from a backend: address host:port, TLS flag, SNI.
PeerOf(backend) ==
  [status |-> "ok",
   addr   |-> << backend.host, backend.port >>,
   tls    |-> backend.tls,
   sni    |-> IF backend.sni = None THEN backend.host ELSE backend.sni[1]]

PeerErr == [NoPeer EXCEPT !.status = "err"]

\* The router is constructed from the configuration and waits for requests.
InitRouter ==
  /\ run = 0
  /\ prog = "router"
  /\ pc = "r_idle"
  /\ routerCfg \in RouterConfigs
  /\ session = NoSession
  /\ host = None
  /\ peer = NoPeer
  /\ upstream_request = NoUpstream
  /\ domains = <<>>
  /\ i = 1
  /\ first_cert_saved = FALSE
  /\ result = "none"
  /\ covered = "unchecked"
  /\ acctFile = 0
  /\ certFile = NoFile
  /\ keyFile = NoId
  /\ domCert = [s \in Subdomains |-> NoFile]
  /\ domKey = [s \in Subdomains |-> NoId]
  /\ outcome = NoneYet(domains)
  /\ outstanding = {}
  /\ clearCalls = {}
  /\ orders = <<>>
  /\ createCalls = 0
  /\ acmeTouched = FALSE
  /\ steps = <<>>

acme == << run, prog, domains, i, first_cert_saved, result, covered, disk,
           outcome, outstanding, clearCalls, orders, createCalls, acmeTouched,
           steps >>

\* A request arrives; the request to send upstream starts as a copy of its
\* headers.
AcceptRequest ==
  /\ prog = "router" /\ pc = "r_idle"
  /\ \E s \in Sessions :
       /\ session' = s
       /\ upstream_request' = [NoUpstream EXCEPT !.Host = s.host_header]
  /\ host' = None
  /\ peer' = NoPeer
  /\ pc' = "r_peer"
  /\ UNCHANGED << acme, routerCfg >>

\* get_host_from_session(session).unwrap_or_else(|| "unknown".to_string())
Unknown == <<"u", "n", "k", "n", "o", "w", "n">>

HostOrUnknown(extracted) == IF extracted = None THEN Unknown ELSE extracted[1]

\* DomainRouter::upstream_peer
UpstreamPeer ==
  /\ prog = "router" /\ pc = "r_peer"
  /\ LET extracted == GetHostFromSession(session)
     IN
     /\ host' = extracted
     /\ \E backend \in FindBackend(routerCfg, HostOrUnknown(extracted)) :
          IF backend = None
            THEN peer' = PeerErr /\ pc' = "r_failed"
            ELSE peer' = PeerOf(backend[1]) /\ pc' = "r_filter"
  /\ UNCHANGED << acme, routerCfg, session, upstream_request >>

\* DomainRouter::upstream_request_filter
UpstreamRequestFilter ==
  /\ prog = "router" /\ pc = "r_filter"
  /\ upstream_request' =
       [Host |-> IF IsText(session.host_header)
                   THEN Some([text |-> TRUE, val |-> session.host_header[1].val])
                   ELSE upstream_request.Host,
        XForwardedFor |-> IF session.client_addr # None
                            THEN Some(session.client_addr[1])
                            ELSE upstream_request.XForwardedFor,
        XForwardedProto |-> Some(<<"h", "t", "t", "p">>)]
  /\ pc' = "r_forwarded"
  /\ UNCHANGED << acme, routerCfg, session, host, peer >>

\* The request is over, forwarded or failed; the next one starts afresh.
EndRequest ==
  /\ prog = "router" /\ pc \in {"r_forwarded", "r_failed"}
  /\ session' = NoSession
  /\ host' = None
  /\ peer' = NoPeer
  /\ upstream_request' = NoUpstream
  /\ pc' = "r_idle"
  /\ UNCHANGED << acme, routerCfg >>

NextRouter ==
  \/ AcceptRequest
  \/ UpstreamPeer
  \/ UpstreamRequestFilter
  \/ EndRequest

SpecRouter == InitRouter /\ [][NextRouter]_vars

(* ----------------------------- properties ----------------------------- *)

\* The DNS names among the SANs of the first certificate of a file.
DnsSanSet(file) ==
  IF file.hasSan
    THEN { g.val : g \in { h \in Range(file.names) : h.type = "dns" } }
    ELSE {}

\* provision_certificates has returned to main in this run.
Returned == prog = "proxy" /\ result # "none"

\* The account was ready and the per-domain loop was reached.
LoopEntered == orders # <<>> \/ result \in {"Ok", "ErrNoCerts"}

Attempted(k) == outcome[k] # "none"

Failed(k) == outcome[k] \in {"failed", "txt_refused", "poll_err"}

\* Both files of domain k's own pair were written by its attempt of this run.
DomainSaved(k) ==
  /\ domCert[Subdomain(domains[k])].id = <<run, k>>
  /\ domKey[Subdomain(domains[k])] = <<run, k>>

\* C1: in provision_certificates, a failure of a domain's attempt at any step
\* ends only that attempt: every later domain of the batch is still
\* attempted, and no domain saved before it loses its artifacts.
C1_FailureIsolated ==
  Returned =>
    \A k \in 1..Len(domains) :
      Failed(k) =>
        /\ \A j \in (k + 1)..Len(domains) : Attempted(j)
        /\ \A j \in 1..(k - 1) : outcome[j] = "saved" => DomainSaved(j)

\* C2: whatever the per-domain outcomes of a batch, provision_certificates
\* returns success exactly when at least one domain's certificate was saved
\* in the run, and the only error it returns is the one for zero saved
\* domains.
C2_SuccessIffSaved ==
  (Returned /\ LoopEntered) =>
    /\ result = "Ok" <=> (\E k \in 1..Len(domains) : DomainSaved(k))
    /\ result \in {"Ok", "ErrNoCerts"}

\* C3: when the TXT set call of a domain is answered with a non-success body,
\* only that attempt fails: nothing is written for the domain, the artifacts of
\* the domains saved earlier and the default pair remain, the domain's TXT
\* clear is still attempted, the remaining domains are processed, and the
\* batch succeeds if any domain was saved.
C3_TxtRefusalIsolated ==
  Returned =>
    \A k \in 1..Len(domains) :
      outcome[k] = "txt_refused" =>
        /\ ~DomainSaved(k)
        /\ \A j \in 1..(k - 1) : outcome[j] = "saved" => DomainSaved(j)
        /\ first_cert_saved => (certFile.kind = "cert" /\ keyFile = certFile.id)
        /\ k \in clearCalls
        /\ \A j \in (k + 1)..Len(domains) : Attempted(j)
        /\ (\E j \in 1..Len(domains) : DomainSaved(j)) => result = "Ok"

\* C4: once a run is over, a TXT clear call has been issued for every domain
\* whose attempt was started, whether it was saved, skipped or failed.
C4_ClearAlwaysAttempted ==
  (prog \in {"proxy", "tool"} /\ result # "none") =>
    \A k \in 1..Len(domains) : Attempted(k) => k \in clearCalls

\* C5: every order requested names exactly one DNS identifier, and a run that
\* succeeds over n domains has requested n orders.
C5_OneIdentifierPerOrder ==
  /\ \A k \in 1..Len(orders) : Len(orders[k]) = 1
  /\ (prog \in {"proxy", "tool"} /\ result = "Ok")
       => Len(orders) = Len(domains)

\* C6: domains are handled strictly one at a time: a domain's attempt starts
\* only when every earlier one is Saved or Skipped, and at most one TXT value
\* set by the run is outstanding.
C6_OneDomainAtATime ==
  /\ \A k \in 1..Len(domains) :
       Attempted(k) =>
         \A j \in 1..(k - 1) : outcome[j] \in {"saved", "skipped"}
  /\ Cardinality(outstanding) <= 1

\* C7: once account.json has been written, no later step creates an account
\* or changes the file: later runs load the account from it.
C7_AccountFileKept ==
  [][acctFile # 0 => (acctFile' = acctFile /\ createCalls' # createCalls + 1)]_vars

\* C8: a proxy start that finds the certificate at cert_path covering the
\* configured domains does not run the orchestrator: no account load or
\* creation, no order and no DNS update happens in that run.
C8_NoAcmeWhenCovered ==
  (prog = "proxy" /\ covered = "yes") =>
    /\ ~acmeTouched
    /\ createCalls = 0
    /\ orders = <<>>
    /\ clearCalls = {}
    /\ result = "none"
    /\ pc \in {"server", "tls_listener", "serving", "fatal"}

\* A proxy is serving two configured domains after a start that found them
\* both covered by the certificate on disk.
C8_Witness ==
  /\ prog = "proxy" /\ covered = "yes" /\ pc = "serving"
  /\ Len(domains) = 2
  /\ certFile.kind = "cert"

\* C9: for a parsable certificate and any required list, cert_covers_domains
\* returns true exactly when the set of the certificate's DNS SANs equals the
\* set of required domains; a strict superset or subset gives false.
C9_CoversIffSetsEqual ==
  (prog = "covers" /\ pc = "returned" /\ certFile.kind = "cert")
    => (covered = "yes" <=> DnsSanSet(certFile) = Range(domains))

\* A call returned on a certificate whose DNS SANs strictly include the
\* required domains, with a non-DNS name and a repeated requirement around.
C9_Witness ==
  /\ prog = "covers" /\ pc = "returned" /\ certFile.kind = "cert"
  /\ Range(domains) # {}
  /\ Range(domains) \subseteq DnsSanSet(certFile)
  /\ Range(domains) # DnsSanSet(certFile)
  /\ covered = "no"

\* C10: whatever the required domains (the empty list included),
\* cert_covers_domains returns false when the file is missing or unreadable,
\* when no certificate parses from it, or when the certificate has no SAN
\* extension.
C10_FalseWithoutSans ==
  (/\ prog = "covers" /\ pc = "returned"
   /\ \/ certFile.kind # "cert"
      \/ ~certFile.hasSan)
    => covered = "no"

(* ------------------------ properties of the router -------------------- *)

\* upstream_peer has returned for the request in hand.
Routed == prog = "router" /\ pc \in {"r_filter", "r_forwarded", "r_failed"}

\* The string find_backend was called with.
RoutedHost == HostOrUnknown(host)

\* The request was given the backend configured under key k.
RoutedTo(k) == peer = PeerOf(routerCfg.domains[k])

EqualsIgnoringCase(x, y) ==
  Len(x) = Len(y) /\ \A n \in 1..Len(x) : LowerChar(x[n]) = LowerChar(y[n])

IsWildcard(k) == StartsWith(k, <<"*", ".">>)

\* C11: matching is case-insensitive and port-agnostic: whenever the inbound
\* Host value, its :port removed, equals a configured key k with letter case
\* ignored (k being the only such key), the request is routed to k's backend.
C11_CaseInsensitiveMatch ==
  (Routed /\ IsText(session.host_header)) =>
    \A k \in DOMAIN routerCfg.domains :
      ( /\ EqualsIgnoringCase(BeforeColon(session.host_header[1].val), k)
        /\ \A other \in DOMAIN routerCfg.domains :
             EqualsIgnoringCase(other, k) => other = k )
      => RoutedTo(k)

\* C12: a wildcard key "*.S" matches a host exactly when the host ends with
\* ".S": a request is routed to a wildcard key's backend only if its host ends
\* with the key less its star; with no exact key for the host and no other
\* wildcard key configured, it is routed there whenever the host does; and the
\* bare root S never gets the backend of "*.S".
C12_WildcardSuffix ==
  Routed =>
    \A k \in { d \in DOMAIN routerCfg.domains : IsWildcard(d) } :
      /\ RoutedTo(k) => EndsWith(RoutedHost, Tail(k))
      /\ ( /\ RoutedHost \notin DOMAIN routerCfg.domains
           /\ \A d \in DOMAIN routerCfg.domains : IsWildcard(d) => d = k
           /\ EndsWith(RoutedHost, Tail(k)) )
         => RoutedTo(k)
      /\ RoutedHost = Tail(Tail(k)) => ~RoutedTo(k)

\* A host with a subdomain label got the backend of the wildcard over its
\* parent.
C12_Witness ==
  /\ Routed
  /\ host = Some(<<"a", ".", "w">>)
  /\ <<"*", ".", "w">> \in DOMAIN routerCfg.domains
  /\ RoutedTo(<<"*", ".", "w">>)

\* C13: the rules apply in strict priority order: an exact key wins over any
\* matching wildcard key, a wildcard over the default backend, the default is
\* used only when no key matches, and the request fails if and only if no
\* exact key, no wildcard key and no default backend applies.
C13_StrictPriority ==
  Routed =>
    LET keys == DOMAIN routerCfg.domains
        wild == { k \in keys : IsWildcard(k) /\ EndsWith(RoutedHost, Tail(k)) }
        fallback == routerCfg.default_backend
    IN
    /\ RoutedHost \in keys => RoutedTo(RoutedHost)
    /\ (RoutedHost \notin keys /\ wild # {}) => \E k \in wild : RoutedTo(k)
    /\ (RoutedHost \notin keys /\ wild = {} /\ fallback # None)
         => peer = PeerOf(fallback[1])
    /\ (fallback # None /\ peer = PeerOf(fallback[1]))
         => (RoutedHost \notin keys /\ wild = {})
    /\ (peer = PeerErr) <=> (RoutedHost \notin keys /\ wild = {} /\ fallback = None)
    /\ (pc = "r_failed") <=> (peer = PeerErr)

\* A host with both an exact key and a matching wildcard key, and a default
\* backend behind them, got the backend of the exact key.
C13_Witness ==
  /\ Routed
  /\ host = Some(<<"a", ".", "w">>)
  /\ DOMAIN routerCfg.domains = { <<"a", ".", "w">>, <<"*", ".", "w">> }
  /\ routerCfg.default_backend # None
  /\ RoutedTo(<<"a", ".", "w">>)

\* Is the header there with a non-empty text value?
IsNonEmpty(header) == IsText(header) /\ header[1].val # <<>>

\* C14: the host used for routing is the first non-empty value among the Host
\* header, the :authority pseudo-header and the URI host, an empty or absent
\* one falling through to the next, lower-cased and with its :port removed
\* (stated for requests whose headers are all readable as text).
C14_FirstNonEmptyHost ==
  ( /\ Routed
    /\ session.host_header # None => session.host_header[1].text
    /\ session.authority # None => session.authority[1].text )
  => host = ( IF IsNonEmpty(session.host_header)
                THEN Some(ToLowercase(BeforeColon(session.host_header[1].val)))
              ELSE IF IsNonEmpty(session.authority)
                THEN Some(ToLowercase(BeforeColon(session.authority[1].val)))
              ELSE IF session.uri_host # None
                THEN Some(ToLowercase(session.uri_host[1]))
              ELSE None )

\* C15: every request forwarded upstream has a Host header that names the
\* inbound host, whichever source that host came from, a forwarded-for header
\* with the client's address and a forwarded-proto header.
C15_ForwardedHeaders ==
  (prog = "router" /\ pc = "r_forwarded") =>
    /\ host # None =>
         /\ IsText(upstream_request.Host)
         /\ ToLowercase(BeforeColon(upstream_request.Host[1].val)) = host[1]
    /\ session.client_addr # None =>
         upstream_request.XForwardedFor = session.client_addr
    /\ upstream_request.XForwardedProto # None

(* ------------------ properties of startup and batches ----------------- *)

\* TlsSettings::intermediate finds a certificate and a key to load.
DefaultPairLoads == certFile.kind = "cert" /\ keyFile # NoId

\* The process is past the provisioning block of main.
ServerPhase == prog = "proxy" /\ pc \in {"server", "tls_listener", "serving", "fatal"}

\* C16: a failed provisioning run never aborts the process by itself: after
\* it the proxy goes on to start the listeners with what is on disk, and the
\* startup is fatal only if the TLS listener finds no certificate and key to
\* load.
C16_FailureNotFatal ==
  /\ (prog = "proxy" /\ result \in {"ErrOther", "ErrNoCerts"}) => ServerPhase
  /\ (prog = "proxy" /\ pc = "fatal") => ~DefaultPairLoads

\* A provisioning run failed and the proxy serves with the pair that was on
\* disk already.
C16_Witness ==
  /\ prog = "proxy" /\ pc = "serving"
  /\ result \in {"ErrOther", "ErrNoCerts"}
  /\ DefaultPairLoads

\* C17: provisioning runs at most once per process start and strictly before
\* serving: the orchestrator is entered only from the certificate check of
\* main; no listener is armed until a triggered run has returned; and once the
\* listeners are being armed nothing of the orchestrator's moves any more.
C17_ProvisionOnceBeforeServing ==
  /\ []( (ServerPhase /\ pc # "server" /\ covered = "no") => result # "none" )
  /\ [][ (pc' = "account" /\ prog' = "proxy") => (pc = "main" /\ prog = "proxy") ]_vars
  /\ [][ (ServerPhase /\ pc # "server") =>
           UNCHANGED << disk, result, orders, outstanding, clearCalls,
                        createCalls, acmeTouched, outcome >> ]_vars

\* The certificate did not cover the domains, the run was made and the proxy
\* serves after it.
C17_Witness ==
  /\ prog = "proxy" /\ pc = "serving"
  /\ covered = "no"
  /\ acmeTouched
  /\ result # "none"

\* The domains of the batch whose own pair was saved.
SavedDomains == { k \in 1..Len(domains) : DomainSaved(k) }

FirstSaved == CHOOSE k \in SavedDomains : \A j \in SavedDomains : k <= j

\* C18: after any batch in which a domain succeeded, the default pair holds
\* the certificate and key of the first domain in input order that succeeded;
\* after a batch without a success the default pair is as it was before.
C18_DefaultPairIsFirstSaved ==
  Returned =>
    IF SavedDomains # {}
      THEN /\ certFile = domCert[Subdomain(domains[FirstSaved])]
           /\ keyFile = domKey[Subdomain(domains[FirstSaved])]
      ELSE /\ certFile.id[1] # run
           /\ keyFile[1] # run

\* C19: when readiness polling for a domain ends with anything but status
\* ready, be it another status or an error such as the polling timeout, the
\* domain's TXT clear is called, nothing is written for the domain and every
\* later domain of the batch is still attempted.
C19_NotReadySkipsDomain ==
  Returned =>
    \A k \in 1..Len(domains) :
      outcome[k] \in {"skipped", "poll_err"} =>
        /\ k \in clearCalls
        /\ domCert[Subdomain(domains[k])].id # <<run, k>>
        /\ domKey[Subdomain(domains[k])] # <<run, k>>
        /\ \A j \in (k + 1)..Len(domains) : Attempted(j)

\* The last step done for the domain or order in hand.
LastStep == IF steps = <<>> THEN "none" ELSE steps[Len(steps)][1]

\* Step `first` of domain k was done before position p of steps.
DoneBefore(first, k, p) == \E q \in 1..(p - 1) : steps[q] = << first, k >>

\* C20: challenge handling follows the authorization status: a Valid
\* authorization gets no TXT record and no set_ready; for a Pending one the
\* TXT set call, the propagation wait and set_ready come in this order, so
\* set_ready is never called without a TXT set call that succeeded; and
\* finalize is called only after polling reported ready.
C20_ChallengeFollowsStatus ==
  /\ pc \in {"challenge", "t_challenge", "set_txt", "t_set_txt"}
       => LastStep = "authz_pending"
  /\ pc \in {"wait", "t_wait"} => LastStep = "set_txt"
  /\ pc \in {"set_ready", "t_set_ready"} => LastStep = "wait"
  /\ pc \in {"finalize", "t_finalize"} => LastStep = "poll_ready"
  /\ \A p \in 1..Len(steps) :
       LET k == steps[p][2] IN
       /\ steps[p][1] \in {"set_txt", "set_ready"}
            => /\ << "authz_valid", k >> \notin Range(steps)
               /\ DoneBefore("authz_pending", k, p)
       /\ steps[p][1] = "wait" => steps[p - 1] = << "set_txt", k >>
       /\ steps[p][1] = "set_ready" => steps[p - 1] = << "wait", k >>
       /\ steps[p][1] = "finalize" => steps[p - 1] = << "poll_ready", k >>

\* A Pending authorization went through TXT set, wait and set_ready, polling
\* reported ready and finalize was called.
C20_Witness ==
  /\ prog = "proxy"
  /\ steps = << << "authz_pending", i >>, << "set_txt", i >>, << "wait", i >>,
                << "set_ready", i >>, << "poll_ready", i >>, << "finalize", i >> >>

\* C21: a failed TXT clear is never escalated: whatever the clear call of a
\* domain met, the domain ends as saved or skipped, as it would have without
\* the failure, and the next domain of the batch is still attempted.
C21_ClearNeverEscalated ==
  Returned =>
    \A k \in clearCalls :
      /\ outcome[k] \in {"saved", "skipped"}
      /\ k < Len(domains) => Attempted(k + 1)

\* C22: an account created in a run has its credentials on disk before the
\* first order of the run is requested, so that whatever fails later the file
\* is there for the next run.
C22_CredentialsBeforeFirstOrder ==
  (prog \in {"proxy", "tool"} /\ createCalls > 0 /\ orders # <<>>) => acctFile # 0

\* C23: every provisioning run terminates: once the provisioning block of
\* main is entered, provision_certificates eventually returns, with success
\* or failure, and main goes on to start the server.
C23_ProvisioningTerminates ==
  (prog = "proxy" /\ pc = "account")
    ~> (prog = "proxy" /\ result # "none" /\ pc \in {"tls_listener", "serving", "fatal"})

\* A provisioning run over two domains has returned and main is at the TLS
\* listener.
C23_Witness ==
  /\ prog = "proxy" /\ pc = "tls_listener"
  /\ result # "none"
  /\ Len(domains) >= 2
  /\ \A k \in 1..Len(domains) : Attempted(k)

\* C24: after a run in which every domain of the configured list succeeded,
\* the default certificate covers the list, so that the next startup with the
\* same configuration does not provision.
C24_ConvergesAfterFullSuccess ==
  ( /\ Returned
    /\ result = "Ok"
    /\ \A k \in 1..Len(domains) : outcome[k] = "saved" )
  => CertCoversDomains(certFile, domains)

\* C25: when the TLS listener comes to load the default pair, the certificate
\* and the key at cert_path and key_path are of the same issuance (same run,
\* same domain).
C25_DefaultPairSameIssuance ==
  ( /\ prog = "proxy" /\ pc = "tls_listener"
    /\ certFile.kind = "cert"
    /\ keyFile # NoId )
  => certFile.id = keyFile

====
